---- MODULE Spec2Model ----
(***************************************************************************)
(* Model of the reverse-index resolver of coherent.build (src/pypi.py,     *)
(* src/distributions/process.py, src/discovery.py).                        *)
(*                                                                         *)
(* Dotted names are sequences of one-character strings, so that            *)
(* str.partition / str.rpartition are modelled by what they do on the      *)
(* characters.  A stored document is a function whose DOMAIN is the set of *)
(* keys the document has (Mongo's $exists is membership in DOMAIN).        *)
(***************************************************************************)
EXTENDS Integers, Sequences, FiniteSets, TLC

VARIABLES
    pkgs,     \* find_roots: the tuple *packages it was called with
    roots1,   \* find_roots(*pkgs), as a list
    roots2,   \* find_roots(*roots1), as a list
    rphase,   \* "input" | "once" | "twice"
    store,    \* the distributions collection: documents in natural order
    clock,    \* tempora.utc.now(), as a counter
    pc,       \* the crawl: "idle" | "running" | "refreshed" | "aborted"
    queue,    \* ids the crawl loop has still to visit
    dist,     \* the Distribution being processed: its id and vars(self)
    raised,   \* the exception that left the crawl loop, or "none"
    attempted,\* ids whose refresh and save have both completed
    ret,      \* outcome of the latest resolver call
    pypi,     \* what the package index serves per id during one crawl
    workers,  \* the pipelines of a worker pool: per id, its stage and object
    call,     \* one application of a function: its name, argument, outcome
    fs,       \* the files of the project directory: per existing path, its text
    frame     \* the running with-statement or build hook: its position and data

rvars == <<pkgs, roots1, roots2, rphase>>

ivars == <<store, clock, pc, queue, dist, raised, attempted, ret>>

xvars == <<pypi, workers, call, fs, frame>>

vars == <<pkgs, roots1, roots2, rphase,
          store, clock, pc, queue, dist, raised, attempted, ret,
          pypi, workers, call, fs, frame>>

(***************************************************************************)
(* Bounds                                                                  *)
(***************************************************************************)
MaxDepth == 4      \* segments in a dotted name given to find_roots
MaxPkgs == 3       \* names in one call of find_roots
MaxClock == 2      \* crawl attempts in one behaviour
MaxBatch == 2      \* import names in one batch of inferred_deps

Segs == {"a", "b"}
DOT == "."

(***************************************************************************)
(* Strings                                                                 *)
(***************************************************************************)
EMPTY == <<>>

Dots(s) == {i \in 1..Len(s) : s[i] = DOT}

Min(S) == CHOOSE x \in S : \A y \in S : x <= y
Max(S) == CHOOSE x \in S : \A y \in S : x >= y

\* str.partition('.'): (head, sep, tail) around the first dot,
\* (s, '', '') when there is none
partition(s) ==
    IF Dots(s) = {}
    THEN <<s, EMPTY, EMPTY>>
    ELSE LET i == Min(Dots(s))
         IN <<SubSeq(s, 1, i - 1), <<DOT>>, SubSeq(s, i + 1, Len(s))>>

\* str.rpartition('.'): (head, sep, tail) around the last dot,
\* ('', '', s) when there is none
rpartition(s) ==
    IF Dots(s) = {}
    THEN <<EMPTY, EMPTY, s>>
    ELSE LET i == Max(Dots(s))
         IN <<SubSeq(s, 1, i - 1), <<DOT>>, SubSeq(s, i + 1, Len(s))>>

\* Python's `x and y`: x when x is falsy (the empty string), else y
AndStr(x, y) == IF x = EMPTY THEN x ELSE y

\* `x in packages` for a tuple
InTuple(x, t) == \E i \in 1..Len(t) : t[i] = x

\* str.split('.')
RECURSIVE split(_)
split(s) ==
    IF Dots(s) = {}
    THEN <<s>>
    ELSE LET p == partition(s) IN <<p[1]>> \o split(p[3])

\* '.'.join(segments)
RECURSIVE join(_)
join(segs) ==
    IF segs = <<>> THEN EMPTY
    ELSE IF Len(segs) = 1 THEN segs[1]
    ELSE segs[1] \o <<DOT>> \o join(Tail(segs))

(***************************************************************************)
(* NameMinimizer: top, parent, find_roots                                  *)
(***************************************************************************)
\* top without `sep and`: the whole name when it has no dot
top_without_sep(package_name) == partition(package_name)[1]

top(package_name) ==
    LET p == partition(package_name) IN AndStr(p[2], p[1])

parent(package_name) ==
    LET p == rpartition(package_name) IN AndStr(p[2], p[1])

\* find_roots with the `not` of the first test lost
find_roots_lost_not(packages) ==
    LET keep(pkg) == InTuple(top(pkg), packages) /\ ~InTuple(parent(pkg), packages)
    IN SelectSeq(packages, keep)

\* find_roots testing the parent only
find_roots_parent_only(packages) ==
    LET keep(pkg) == ~InTuple(parent(pkg), packages)
    IN SelectSeq(packages, keep)

find_roots(packages) ==
    LET keep(pkg) == ~InTuple(top(pkg), packages) /\ ~InTuple(parent(pkg), packages)
    IN SelectSeq(packages, keep)

(***************************************************************************)
(* Dictionaries and documents                                              *)
(***************************************************************************)
\* None, and the empty dict: both falsy
None == [k \in {} |-> 0]

\* bool(x) for a dict or None
bool(d) == DOMAIN d # {}

\* dict.update, and Mongo's $set: keys of s overwrite, other keys of d stay
Update(d, s) ==
    [k \in DOMAIN d \cup DOMAIN s |-> IF k \in DOMAIN s THEN s[k] ELSE d[k]]

\* jaraco.collections.Projection(keys, d): the items of d whose key is in keys
Projection(keys, d) == [k \in keys \cap DOMAIN d |-> d[k]]

(***************************************************************************)
(* The package index as the crawler sees it                                *)
(***************************************************************************)
Ids == {"p1", "p2"}

\* the Name of the archive's metadata: differs in casing from the id
MetadataName(id) == IF id = "p1" THEN "P1" ELSE IF id = "p2" THEN "P2" ELSE "P3"

\* a row of the ranking feed
Row(id) == [project |-> id, download_count |-> 5]

A_B_C == <<"a", DOT, "b", DOT, "c">>
A_B == <<"a", DOT, "b">>
A_DASH_B == <<"a", "-", "b">>

\* archives: the metadata directories (by the Name each declares) and the
\* dotted names of the packages and modules found in the archive
Archives(id) ==
    { [distinfos |-> <<MetadataName(id)>>, names |-> <<A_B_C, A_DASH_B>>],
      [distinfos |-> <<MetadataName(id)>>, names |-> <<A_B, A_B_C>>] }

NoArchive == [distinfos |-> <<>>, names |-> <<>>]
SDIST == <<"pkg", ".tar.gz">>
WHL == <<"pkg", ".whl">>

\* what the network answers to one fetch of a distribution:
\*   get      what session.get of '<id>/json' does: "response", or the
\*            exception it raises once the retries are used up
\*   status   the status of that response
\*   info     the JSON body; 'urls' lists filename and the asset behind url
\*   an asset is the response to the download: its status, which the code
\*   does not look at, and its body, a zip archive or not
Asset(iszip, archive) == [iszip |-> iszip, archive |-> archive, status |-> 200]

\* the download answered 404: the body is the error page
AssetNotFound == [iszip |-> FALSE, archive |-> NoArchive, status |-> 404]

Answer(get, status, info) == [get |-> get, status |-> status, info |-> info]

Answers(id) ==
    { Answer("ConnectionError", 0, None),
      Answer("response", 404, None),
      Answer("response", 200, [info |-> "x"]),
      Answer("response", 200, [urls |-> <<[filename |-> SDIST, asset |-> Asset(TRUE, NoArchive)]>>]),
      Answer("response", 200, [urls |-> <<[filename |-> WHL, asset |-> Asset(FALSE, NoArchive)]>>]),
      Answer("response", 200, [urls |-> <<[filename |-> WHL, asset |-> Asset(TRUE, NoArchive)]>>]) }
    \cup
    { Answer("response", 200,
             [urls |-> <<[filename |-> SDIST, asset |-> Asset(FALSE, NoArchive)],
                         [filename |-> WHL, asset |-> Asset(TRUE, w)]>>]) :
        w \in Archives(id) }

(***************************************************************************)
(* Outcomes of a call: a returned value or a raised exception              *)
(***************************************************************************)
Return(v) == [exc |-> "none", msg |-> "", value |-> v]
Raise(cls, msg) == [exc |-> cls, msg |-> msg, value |-> None]

(***************************************************************************)
(* DistributionFetcher: Distribution.wheel                                 *)
(***************************************************************************)
endswith_whl(filename) == filename[Len(filename)] = ".whl"

\* wheel taking the last asset whose filename ends in '.whl'
wheel_last(answer) ==
    IF answer.get # "response" THEN Raise(answer.get, "Max retries exceeded")
    ELSE IF answer.status >= 400 THEN Raise("HTTPError", "404 Client Error")
    ELSE IF "urls" \notin DOMAIN answer.info THEN Raise("ValueError", "No dists")
    ELSE LET urls == answer.info.urls
             whl == {i \in 1..Len(urls) : endswith_whl(urls[i].filename)}
         IN IF whl = {} THEN Raise("ValueError", "No wheels")
            ELSE LET match == urls[Max(whl)]
                 IN IF ~match.asset.iszip
                    THEN Raise("BadZipFile", "File is not a zip file")
                    ELSE Return(match.asset.archive)

wheel(answer) ==
    IF answer.get # "response" THEN Raise(answer.get, "Max retries exceeded")
    ELSE IF answer.status >= 400 THEN Raise("HTTPError", "404 Client Error")
    ELSE IF "urls" \notin DOMAIN answer.info THEN Raise("ValueError", "No dists")
    ELSE LET urls == answer.info.urls
             whl == {i \in 1..Len(urls) : endswith_whl(urls[i].filename)}
         IN IF whl = {} THEN Raise("ValueError", "No wheels")
            ELSE LET match == urls[Min(whl)]
                 IN IF ~match.asset.iszip
                    THEN Raise("BadZipFile", "File is not a zip file")
                    ELSE Return(match.asset.archive)

(***************************************************************************)
(* ArtifactInspector: _get_name, importable, find_names                    *)
(***************************************************************************)
IdStart == {"a", "b", "c", "_"}
IdContinue == IdStart \cup {"0", "1"}

isidentifier(s) ==
    /\ Len(s) > 0
    /\ s[1] \in IdStart
    /\ \A i \in 1..Len(s) : s[i] \in IdContinue

importable(name) ==
    LET g == split(name) IN \A i \in 1..Len(g) : isidentifier(g[i])

\* find_names without the importable filter
find_names_unfiltered(archive) == archive.names

find_names(archive) == SelectSeq(archive.names, importable)

\* _get_name taking the first metadata directory where there are several
get_name_first(archive) ==
    IF Len(archive.distinfos) = 0
    THEN Raise("ValueError", "too few items in iterable (expected 1)")
    ELSE Return(archive.distinfos[1])

\* one(wheel.glob('*.dist-info')), then the Name of its metadata
get_name(archive) ==
    IF Len(archive.distinfos) = 0
    THEN Raise("ValueError", "too few items in iterable (expected 1)")
    ELSE IF Len(archive.distinfos) > 1
    THEN Raise("ValueError", "Expected exactly one item in iterable")
    ELSE Return(archive.distinfos[1])

(***************************************************************************)
(* The files of an archive: find_packages, is_namespace, find_modules.     *)
(* A file is its path in the archive (characters, "/" between directories, *)
(* the extension as the last item) and what reading it gives.              *)
(***************************************************************************)
SLASH == "/"
INIT == <<"__init__", ".py">>
NsLimit == 1024

\* the content of a file: whether tokenize.detect_encoding finds the
\* encoding of its first two lines, whether all of it decodes under that
\* encoding, its size in bytes, the len() of the decoded text, and whether
\* ns_pattern is found in the text
Text(parses, decodes, size, len, declares) ==
    [parses |-> parses, decodes |-> decodes, size |-> size, len |-> len,
     declares |-> declares]

File(at, text) == [at |-> at, text |-> text]

\* the position of the last "/" of a path, 0 if it has none
LastSlash(at) == Max({0} \cup {i \in 1..Len(at) : at[i] = SLASH})

\* Path.name
name_of(at) == SubSeq(at, LastSlash(at) + 1, Len(at))

\* Path.parent.at: the directory with its trailing "/"
parent_at(at) == SubSeq(at, 1, LastSlash(at))

\* str.rstrip('/')
rstrip(s) ==
    LET keep == {i \in 1..Len(s) : s[i] # SLASH}
    IN IF keep = {} THEN EMPTY ELSE SubSeq(s, 1, Max(keep))

\* str.replace('/', '.')
replace(s) == [i \in 1..Len(s) |-> IF s[i] = SLASH THEN DOT ELSE s[i]]

\* PurePosixPath.with_suffix(''): the path without its extension
with_suffix(at) == SubSeq(at, 1, Len(at) - 1)

\* wheel.glob('**/__init__.py'): initializers in a directory, at any depth
glob_inits(files) ==
    SelectSeq(files, LAMBDA f : LastSlash(f.at) > 0 /\ name_of(f.at) = INIT)

\* wheel.glob('**/*.py'): the .py files in a directory, at any depth
glob_nested_py(files) ==
    SelectSeq(files, LAMBDA f : LastSlash(f.at) > 0 /\ f.at[Len(f.at)] = ".py")

\* wheel.glob('*.py'): the .py files at the top of the archive
glob_top_py(files) ==
    SelectSeq(files, LAMBDA f : LastSlash(f.at) = 0 /\ f.at[Len(f.at)] = ".py")

\* open(path): detect_encoding raises SyntaxError when the first lines do
\* not decode or name an unknown encoding
open(path) ==
    IF path.text.parses THEN Return(path.text)
    ELSE Raise("SyntaxError", "invalid or missing encoding declaration")

\* strm.read(): the whole content is decoded
read(strm) ==
    IF strm.decodes THEN Return(strm)
    ELSE Raise("UnicodeDecodeError", "can't decode byte")

\* is_namespace without the length test
is_namespace_any_length(init) ==
    LET strm == open(init)
    IN IF strm.exc = "SyntaxError" THEN Return(FALSE)
       ELSE LET text == read(strm.value)
            IN IF text.exc # "none" THEN text
               ELSE Return(text.value.declares)

\* @suppress(SyntaxError) and @apply(bool): a SyntaxError gives False;
\* any other exception leaves is_namespace
is_namespace(init) ==
    LET strm == open(init)
    IN IF strm.exc = "SyntaxError" THEN Return(FALSE)
       ELSE LET text == read(strm.value)
            IN IF text.exc # "none" THEN text
               ELSE Return(text.value.len < NsLimit /\ text.value.declares)

package_name(init) == replace(rstrip(parent_at(init.at)))

module_name(modfile) == replace(with_suffix(modfile.at))

\* find_packages that keeps the namespace declarations
find_packages_unfiltered(files) ==
    LET inits == glob_inits(files)
    IN Return([i \in 1..Len(inits) |-> package_name(inits[i])])

\* the names of the packages, or the exception of the first is_namespace
\* that raises
find_packages(files) ==
    LET globbed == glob_inits(files)
        raising == {i \in 1..Len(globbed) : is_namespace(globbed[i]).exc # "none"}
        inits == SelectSeq(globbed, LAMBDA init : ~is_namespace(init).value)
    IN IF raising # {} THEN is_namespace(globbed[Min(raising)])
       ELSE Return([i \in 1..Len(inits) |-> package_name(inits[i])])

find_modules(files) ==
    LET modfiles == SelectSeq(glob_nested_py(files) \o glob_top_py(files),
                              LAMBDA modfile : name_of(modfile.at) # INIT)
    IN [i \in 1..Len(modfiles) |-> module_name(modfiles[i])]

\* the archive as find_names and _get_name see it
Wheel(distinfos, files) ==
    [distinfos |-> distinfos, names |-> find_packages(files).value \o find_modules(files)]

(***************************************************************************)
(* Distribution: from_wheel, refresh, __json__, save, unprocessed          *)
(***************************************************************************)
\* the exception classes `except (ValueError, HTTPError, KeyError)` catches;
\* requests' ConnectionError and zipfile's BadZipFile derive from none of them
\* the except clause without HTTPError
Caught_without_HTTPError == {"ValueError", "KeyError"}

Caught == {"ValueError", "HTTPError", "KeyError"}

\* the try block without the assignment of name
Inspect_without_name(answer) ==
    LET w == wheel(answer)
    IN IF w.exc # "none" THEN w
       ELSE LET n == get_name(w.value)
            IN IF n.exc # "none" THEN n
               ELSE Return([roots |-> find_roots(find_names(w.value))])

\* the body of the try block: name=self._get_name(), roots=list(find_roots(...))
Inspect(answer) ==
    LET w == wheel(answer)
    IN IF w.exc # "none" THEN w
       ELSE LET n == get_name(w.value)
            IN IF n.exc # "none" THEN n
               ELSE Return([name |-> n.value,
                            roots |-> find_roots(find_names(w.value))])

\* from_wheel whose except branch leaves `updated` out
from_wheel_no_stamp(answer, now) ==
    LET r == Inspect(answer)
    IN IF r.exc = "none" THEN Return(Update(r.value, [updated |-> now]))
       ELSE IF r.exc \in Caught THEN Return([error |-> r.msg])
       ELSE r

from_wheel(answer, now) ==
    LET r == Inspect(answer)
    IN IF r.exc = "none" THEN Return(Update(r.value, [updated |-> now]))
       ELSE IF r.exc \in Caught THEN Return([error |-> r.msg, updated |-> now])
       ELSE r

\* Distribution.from_row: the id with `downloads` in vars(self)
from_row(row) == [id |-> row.project, vars |-> [downloads |-> row.download_count]]

\* Distribution(id): the id with empty vars(self)
Distribution(id) == [id |-> id, vars |-> None]

NoDist == [id |-> "", vars |-> None]

JsonKeys == {"name", "roots", "error", "downloads", "updated"}

json(self) == Update([id |-> self.id], Projection(JsonKeys, self.vars))

\* store().find(query): the positions of the matching documents
Matching(coll, id) == {i \in 1..Len(coll) : coll[i].id = id}

\* update_one without upsert semantics: always inserts
insert_one(coll, id, set) == Append(coll, Update([id |-> id], set))

\* update_one that, when a document matches, updates the last document of
\* the collection instead of the matching one
update_one_last(coll, id, set) ==
    IF Matching(coll, id) = {}
    THEN Append(coll, Update([id |-> id], set))
    ELSE [coll EXCEPT ![Len(coll)] = Update(coll[Len(coll)], set)]

\* update_one that replaces the matching document by the fields it is given
update_one_replacing(coll, id, set) ==
    IF Matching(coll, id) = {}
    THEN Append(coll, Update([id |-> id], set))
    ELSE [i \in 1..Len(coll) |->
            IF coll[i].id = id THEN Update([id |-> id], set) ELSE coll[i]]

\* update_one({"id": id}, {"$set": set}, upsert=True)
update_one(coll, id, set) ==
    IF Matching(coll, id) = {}
    THEN Append(coll, Update([id |-> id], set))
    ELSE LET i == Min(Matching(coll, id))
         IN [coll EXCEPT ![i] = Update(coll[i], set)]

save(coll, self) == update_one(coll, self.id, json(self))

\* unprocessed returning the id of every document
unprocessed_all(coll) == [i \in 1..Len(coll) |-> coll[i].id]

\* Distribution.unprocessed: ids of the documents without `updated`, in order
RECURSIVE unprocessed(_)
unprocessed(coll) ==
    IF coll = <<>> THEN <<>>
    ELSE IF "updated" \in DOMAIN Head(coll)
         THEN unprocessed(Tail(coll))
         ELSE <<Head(coll).id>> \o unprocessed(Tail(coll))

(***************************************************************************)
(* Resolver: all_names, is_root, distribution_for                          *)
(***************************************************************************)
RECURSIVE all_names(_)
all_names(module) ==
    LET p == rpartition(module)
    IN IF p[1] = EMPTY THEN <<module>> ELSE <<module>> \o all_names(p[1])

\* find_one({'roots': module}): the first document whose roots hold module
Listing(coll, module) ==
    {i \in 1..Len(coll) : "roots" \in DOMAIN coll[i] /\ InTuple(module, coll[i].roots)}

is_root(coll, module) ==
    IF Listing(coll, module) = {} THEN None ELSE coll[Min(Listing(coll, module))]

\* all_names walked from the root down to the name
RECURSIVE all_names_reversed(_)
all_names_reversed(module) ==
    LET p == rpartition(module)
    IN IF p[1] = EMPTY THEN <<module>> ELSE all_names_reversed(p[1]) \o <<module>>

\* next(filter(bool, map(is_root, names)))['name'] over the candidates `names`
first_hit_name(coll, names) ==
    LET hits == {i \in 1..Len(names) : bool(is_root(coll, names[i]))}
    IN IF hits = {} THEN Raise("StopIteration", "")
       ELSE LET doc == is_root(coll, names[Min(hits)])
            IN IF "name" \in DOMAIN doc THEN Return(doc.name)
               ELSE Raise("KeyError", "name")

\* distribution_for trying the least specific candidate first
distribution_for_root_first(coll, import_name) ==
    first_hit_name(coll, all_names_reversed(import_name))

distribution_for(coll, import_name) ==
    first_hit_name(coll, all_names(import_name))

(***************************************************************************)
(* DependencyInferencer: extra_for and the loop of inferred_deps           *)
(***************************************************************************)
\* the top directory of the importing module decides the extra
extra_for(module) ==
    IF module = "tests" THEN "; extra==test"
    ELSE IF module = "docs" THEN "; extra==doc"
    ELSE ""

\* the generator consumed to its end: what it yielded and how it ended.  A
\* StopIteration raised inside a generator leaves it as RuntimeError.
RECURSIVE inferred_deps(_, _)
inferred_deps(coll, imps) ==
    IF imps = <<>> THEN Return(<<>>)
    ELSE LET r == distribution_for(coll, Head(imps).name)
         IN IF r.exc = "StopIteration"
            THEN [exc |-> "RuntimeError", msg |-> "generator raised StopIteration",
                  value |-> <<>>]
            ELSE IF r.exc # "none"
            THEN [exc |-> r.exc, msg |-> r.msg, value |-> <<>>]
            ELSE LET rest == inferred_deps(coll, Tail(imps))
                 IN [rest EXCEPT !.value =
                        <<<<r.value, extra_for(Head(imps).module)>>>> \o @]

(***************************************************************************)
(* Inputs of find_roots: importable dotted names                           *)
(***************************************************************************)
RECURSIVE NamesOfDepth(_)
NamesOfDepth(d) ==
    IF d = 1
    THEN {<<s>> : s \in Segs}
    ELSE {n \o <<DOT, s>> : n \in NamesOfDepth(d - 1), s \in Segs}

\* the names the model draws from: at most one segment differs from "a", which
\* keeps siblings, parents and distant ancestors at every depth
DottedNames ==
    {n \in UNION {NamesOfDepth(d) : d \in 1..MaxDepth} :
        Cardinality({i \in 1..Len(n) : n[i] = "b"}) <= 1}

Tuples(S, n) == UNION {[1..k -> S] : k \in 0..n}

(***************************************************************************)
(* Initial values of the two halves of the state                           *)
(***************************************************************************)
\* the outcome of a resolver call: the operation, its argument (an import
\* name or a batch of imports), the exception raised if any, and the values
\* returned or yielded, as a list
NoCall ==
    [op |-> "none", name |-> EMPTY, imps |-> <<>>, exc |-> "none", msg |-> "",
     value |-> <<>>]

MinimizerAtRest ==
    /\ pkgs = <<>>
    /\ roots1 = <<>>
    /\ roots2 = <<>>
    /\ rphase = "input"

IndexAtRest ==
    /\ store = <<>>
    /\ clock = 0
    /\ pc = "idle"
    /\ queue = <<>>
    /\ dist = NoDist
    /\ raised = "none"
    /\ attempted = {}
    /\ ret = NoCall

\* no function applied yet
NoApply == [op |-> "none", arg |-> <<>>, done |-> FALSE, out |-> Raise("pending", "")]

\* no with-statement entered and no hook called, in an empty directory
NoFrame == [pc |-> "none"]

ProjectAtRest ==
    /\ fs = None
    /\ frame = NoFrame

ExtrasAtRest ==
    /\ pypi = None
    /\ workers = None
    /\ ProjectAtRest
    /\ call = NoApply

(***************************************************************************)
(* Specification of the minimizer: find_roots applied to a tuple of names, *)
(* then applied to its own output.                                         *)
(***************************************************************************)
InitRoots ==
    /\ pkgs \in Tuples(DottedNames, MaxPkgs)
    /\ roots1 = <<>>
    /\ roots2 = <<>>
    /\ rphase = "input"
    /\ IndexAtRest
    /\ ExtrasAtRest

FindRoots ==
    /\ rphase = "input"
    /\ roots1' = find_roots(pkgs)
    /\ rphase' = "once"
    /\ UNCHANGED <<pkgs, roots2>>
    /\ UNCHANGED ivars
    /\ UNCHANGED xvars

FindRootsAgain ==
    /\ rphase = "once"
    /\ roots2' = find_roots(roots1)
    /\ rphase' = "twice"
    /\ UNCHANGED <<pkgs, roots1>>
    /\ UNCHANGED ivars
    /\ UNCHANGED xvars

NextRoots == FindRoots \/ FindRootsAgain

SpecRoots == InitRoots /\ [][NextRoots]_vars

(***************************************************************************)
(* Specification of the index: the crawl and the resolver over one store   *)
(***************************************************************************)
B_A == <<"b", DOT, "a">>

\* import names handed to the resolver
Queries == {A_B_C, A_B, B_A}

\* non-local imports of the project, with the top directory of their module
Imports ==
    { [name |-> A_B_C, module |-> "tests"],
      [name |-> B_A, module |-> "pkg"] }

Init == MinimizerAtRest /\ IndexAtRest /\ ExtrasAtRest

\* Distribution.from_row(row).save(): a feed row is recorded, unprocessed
ObserveRow(id) ==
    /\ pc = "idle"
    /\ store' = save(store, from_row(Row(id)))
    /\ UNCHANGED <<clock, pc, queue, dist, raised, attempted, ret>>
    /\ UNCHANGED rvars
    /\ UNCHANGED xvars

\* process.run starts: the loop will visit Distribution.unprocessed()
RunStart ==
    /\ pc \in {"idle", "aborted"}
    /\ queue' = unprocessed(store)
    /\ pc' = "running"
    /\ raised' = "none"
    /\ UNCHANGED <<store, clock, dist, attempted, ret>>
    /\ UNCHANGED rvars
    /\ UNCHANGED xvars

\* a crawl pass over one named distribution, whatever its record says
Recrawl(id) ==
    /\ pc \in {"idle", "aborted"}
    /\ queue' = <<id>>
    /\ pc' = "running"
    /\ raised' = "none"
    /\ UNCHANGED <<store, clock, dist, attempted, ret>>
    /\ UNCHANGED rvars
    /\ UNCHANGED xvars

\* dist.refresh(): vars(self).update(self.from_wheel())
refresh(self, answer, now) ==
    LET r == from_wheel(answer, now)
    IN IF r.exc = "none"
       THEN Return([self EXCEPT !.vars = Update(@, r.value)])
       ELSE r

\* the loop takes the next distribution and refreshes it; an exception that
\* from_wheel lets through leaves the loop and ends the run
RefreshWith(answer) ==
    /\ pc = "running"
    /\ queue # <<>>
    /\ LET r == refresh(Distribution(Head(queue)), answer, clock + 1)
       IN IF r.exc = "none"
          THEN /\ dist' = r.value
               /\ pc' = "refreshed"
               /\ queue' = Tail(queue)
               /\ raised' = raised
          ELSE /\ dist' = NoDist
               /\ pc' = "aborted"
               /\ queue' = <<>>
               /\ raised' = r.exc
    /\ clock' = clock + 1
    /\ UNCHANGED <<store, attempted, ret>>
    /\ UNCHANGED rvars
    /\ UNCHANGED xvars

\* a refresh whose fetch is answered by any of the answers the index may give
Refresh ==
    /\ pc = "running"
    /\ queue # <<>>
    /\ clock < MaxClock
    /\ \E answer \in Answers(Head(queue)) : RefreshWith(answer)

\* dist.save()
Save ==
    /\ pc = "refreshed"
    /\ store' = save(store, dist)
    /\ attempted' = attempted \cup {dist.id}
    /\ dist' = NoDist
    /\ pc' = "running"
    /\ UNCHANGED <<clock, queue, raised, ret>>
    /\ UNCHANGED rvars
    /\ UNCHANGED xvars

\* the loop of process.run is exhausted
RunEnd ==
    /\ pc = "running"
    /\ queue = <<>>
    /\ pc' = "idle"
    /\ UNCHANGED <<store, clock, queue, dist, raised, attempted, ret>>
    /\ UNCHANGED rvars
    /\ UNCHANGED xvars

\* a caller resolves one import name; a behaviour observes one resolver call,
\* at any point of the crawl
Resolve(name) ==
    /\ ret.op = "none"
    /\ LET r == distribution_for(store, name)
       IN ret' = [NoCall EXCEPT !.op = "distribution_for", !.name = name,
                                !.exc = r.exc, !.msg = r.msg,
                                !.value = IF r.exc = "none" THEN <<r.value>> ELSE <<>>]
    /\ UNCHANGED <<store, clock, pc, queue, dist, raised, attempted>>
    /\ UNCHANGED rvars
    /\ UNCHANGED xvars

\* a caller consumes inferred_deps() over a batch of imports
InferDeps(imps) ==
    /\ ret.op = "none"
    /\ LET r == inferred_deps(store, imps)
       IN ret' = [NoCall EXCEPT !.op = "inferred_deps", !.imps = imps,
                                !.exc = r.exc, !.msg = r.msg, !.value = r.value]
    /\ UNCHANGED <<store, clock, pc, queue, dist, raised, attempted>>
    /\ UNCHANGED rvars
    /\ UNCHANGED xvars

NextCrawl ==
    \/ \E id \in Ids : ObserveRow(id)
    \/ RunStart
    \/ \E id \in Ids : Recrawl(id)
    \/ Refresh
    \/ Save
    \/ RunEnd

SpecCrawl == Init /\ [][NextCrawl]_vars

Next ==
    \/ NextCrawl
    \/ \E name \in Queries : Resolve(name)
    \/ \E imps \in Tuples(Imports, MaxBatch) : InferDeps(imps)

Spec == Init /\ [][Next]_vars

(***************************************************************************)
(* Specification of one feed: its rows are recorded in feed order, the     *)
(* unprocessed records are crawled, and the package index serves the same  *)
(* answer for an id during the whole behaviour.  The run may be            *)
(* interrupted between two distributions and started again.                *)
(***************************************************************************)
Feed == <<"p1", "p2", "p3">>

FeedIds == {Feed[i] : i \in 1..Len(Feed)}

\* an archive with two metadata directories
TwoDistInfos(id) == [distinfos |-> <<MetadataName(id), "other">>, names |-> <<A_B>>]

\* the answers of Answers(id), and: the retries used up on 5xx responses, an
\* asset whose download is answered 404, an archive with two metadata
\* directories
FeedAnswers(id) ==
    Answers(id) \cup
    { Answer("RetryError", 0, None),
      Answer("response", 200, [urls |-> <<[filename |-> WHL, asset |-> AssetNotFound]>>]),
      Answer("response", 200,
             [urls |-> <<[filename |-> WHL, asset |-> Asset(TRUE, TwoDistInfos(id))]>>]) }

InitFeed ==
    /\ MinimizerAtRest
    /\ IndexAtRest
    /\ pypi \in [FeedIds -> UNION {FeedAnswers(id) : id \in FeedIds}]
    /\ \A id \in FeedIds : pypi[id] \in FeedAnswers(id)
    /\ workers = None
    /\ ProjectAtRest
    /\ call = NoApply

\* the next row of the feed is recorded
FeedObserve ==
    /\ Len(store) < Len(Feed)
    /\ ObserveRow(Feed[Len(store) + 1])

FeedRunStart ==
    /\ pc = "idle"
    /\ RunStart

FeedRefresh ==
    /\ pc = "running"
    /\ queue # <<>>
    /\ RefreshWith(pypi[Head(queue)])

\* the process running the loop is stopped between two distributions
Interrupt ==
    /\ pc = "running"
    /\ queue # <<>>
    /\ pc' = "idle"
    /\ queue' = <<>>
    /\ UNCHANGED <<store, clock, dist, raised, attempted, ret>>
    /\ UNCHANGED rvars
    /\ UNCHANGED xvars

NextFeed ==
    \/ FeedObserve
    \/ FeedRunStart
    \/ FeedRefresh
    \/ Save
    \/ RunEnd
    \/ Interrupt

SpecFeed == InitFeed /\ [][NextFeed]_vars

(***************************************************************************)
(* Specification of a pool: the body of the loop of process.run, refresh   *)
(* then save, is run for each unprocessed record of the feed by a worker   *)
(* of its own, and the steps of the workers interleave.  A save is one     *)
(* update_one, which the store applies atomically.                         *)
(***************************************************************************)
Worker(stage, self) == [stage |-> stage, self |-> self]

InitPool ==
    /\ MinimizerAtRest
    /\ IndexAtRest
    /\ pypi \in [FeedIds -> UNION {FeedAnswers(id) : id \in FeedIds}]
    /\ \A id \in FeedIds : pypi[id] \in FeedAnswers(id)
    /\ workers = [id \in FeedIds |-> Worker("idle", NoDist)]
    /\ ProjectAtRest
    /\ call = NoApply

\* the next row of the feed is recorded while the workers run
PoolObserve ==
    /\ Len(store) < Len(Feed)
    /\ store' = save(store, from_row(Row(Feed[Len(store) + 1])))
    /\ UNCHANGED <<clock, pc, queue, dist, raised, attempted, ret>>
    /\ UNCHANGED rvars
    /\ UNCHANGED xvars

\* dist.refresh() of the worker of id; an exception ends this worker only
PoolRefresh(id) ==
    /\ workers[id].stage = "idle"
    /\ InTuple(id, unprocessed(store))
    /\ LET r == refresh(Distribution(id), pypi[id], clock + 1)
       IN workers' = [workers EXCEPT ![id] =
                        IF r.exc = "none" THEN Worker("refreshed", r.value)
                        ELSE Worker("failed", NoDist)]
    /\ clock' = clock + 1
    /\ UNCHANGED <<store, pc, queue, dist, raised, attempted, ret>>
    /\ UNCHANGED <<pypi, call, fs, frame>>
    /\ UNCHANGED rvars

\* dist.save() of the worker of id
PoolSave(id) ==
    /\ workers[id].stage = "refreshed"
    /\ store' = save(store, workers[id].self)
    /\ workers' = [workers EXCEPT ![id] = Worker("saved", NoDist)]
    /\ UNCHANGED <<clock, pc, queue, dist, raised, attempted, ret>>
    /\ UNCHANGED <<pypi, call, fs, frame>>
    /\ UNCHANGED rvars

NextPool ==
    \/ PoolObserve
    \/ \E id \in FeedIds : PoolRefresh(id)
    \/ \E id \in FeedIds : PoolSave(id)

SpecPool == InitPool /\ [][NextPool]_vars

(***************************************************************************)
(* Specification of Distribution.wheel: the property is read once on a     *)
(* Distribution whose per-project response lists up to MaxUrls assets.     *)
(***************************************************************************)
MaxUrls == 3

\* the entries of info['urls']: a filename and the asset behind its url
Urls ==
    { [filename |-> f, asset |-> a] :
        f \in {SDIST, WHL},
        a \in {Asset(FALSE, NoArchive)} \cup {Asset(TRUE, w) : w \in Archives("p1")} }

WheelAnswers ==
    { Answer("ConnectionError", 0, None),
      Answer("response", 404, None),
      Answer("response", 200, [info |-> "x"]) }
    \cup { Answer("response", 200, [urls |-> u]) : u \in Tuples(Urls, MaxUrls) }

Applying(op, arg) == [op |-> op, arg |-> arg, done |-> FALSE, out |-> Raise("pending", "")]

InitWheel ==
    /\ MinimizerAtRest
    /\ IndexAtRest
    /\ pypi = None
    /\ workers = None
    /\ ProjectAtRest
    /\ call \in {Applying("wheel", a) : a \in WheelAnswers}

ReadWheel ==
    /\ call.op = "wheel"
    /\ ~call.done
    /\ call' = [call EXCEPT !.done = TRUE, !.out = wheel(call.arg)]
    /\ UNCHANGED <<pypi, workers, fs, frame>>
    /\ UNCHANGED rvars
    /\ UNCHANGED ivars

NextWheel == ReadWheel

SpecWheel == InitWheel /\ [][NextWheel]_vars

(***************************************************************************)
(* Specification of load-distributions.py: run is called once on the feed  *)
(* with an include filter, a resumption marker and a skip count.           *)
(***************************************************************************)
MaxSkip == 2

\* filter(include.match, dists): include is given by the names it matches
filter(include, dists) == SelectSeq(dists, LAMBDA d : d \in include)

\* itertools.islice(dists, skip, None)
islice(dists, skip) == SubSeq(dists, skip + 1, Len(dists))

\* list(split_before(dists, lambda dist: dist == jump, maxsplit=1)): a new
\* list starts before an item equal to jump unless the buffer is empty, as
\* it is at the first item; after one split the rest goes into the last list
split_before(dists, jump) ==
    LET hits == {i \in 2..Len(dists) : dists[i] = jump}
    IN IF hits # {}
       THEN <<SubSeq(dists, 1, Min(hits) - 1), SubSeq(dists, Min(hits), Len(dists))>>
       ELSE IF dists = <<>> THEN <<>> ELSE <<dists>>

\* run: the ids it has saved when it returns, or the exception that leaves
\* it.  `skipped, dists = ...` needs two lists; the loop calls dist.load(),
\* which the Distribution of pypi.py does not have.
run(include, feed, jump, skip) ==
    LET dists == islice(filter(include, feed), skip)
        parts == split_before(dists, jump)
    IN IF jump # "" /\ Len(parts) # 2
       THEN Raise("ValueError", "not enough values to unpack (expected 2)")
       ELSE LET todo == IF jump # "" THEN parts[2] ELSE dists
            IN IF todo = <<>> THEN Return(<<>>)
               ELSE Raise("AttributeError", "'Distribution' object has no attribute 'load'")

\* the values of jump: none, a name of the feed, a name not in the feed
Jumps == {""} \cup FeedIds \cup {"p0"}

InitLoad ==
    /\ MinimizerAtRest
    /\ IndexAtRest
    /\ pypi = None
    /\ workers = None
    /\ ProjectAtRest
    /\ call \in { Applying("run", [include |-> inc, jump |-> j, skip |-> k]) :
                    inc \in SUBSET FeedIds, j \in Jumps, k \in 0..MaxSkip }

RunLoad ==
    /\ call.op = "run"
    /\ ~call.done
    /\ call' = [call EXCEPT !.done = TRUE,
                            !.out = run(call.arg.include, Feed, call.arg.jump, call.arg.skip)]
    /\ UNCHANGED <<pypi, workers, fs, frame>>
    /\ UNCHANGED rvars
    /\ UNCHANGED ivars

NextLoad == RunLoad

SpecLoad == InitLoad /\ [][NextLoad]_vars

(***************************************************************************)
(* Specification of the inspection of one archive: the names from_wheel    *)
(* finds in its files and the roots it keeps.                              *)
(***************************************************************************)
\* directories that may hold an __init__.py: a, a/b, a/_/c and b
InitDirs ==
    << <<"a", SLASH>>,
       <<"a", SLASH, "b", SLASH>>,
       <<"a", SLASH, "_", SLASH, "c", SLASH>>,
       <<"b", SLASH>> >>

\* what an __init__.py may hold: plain code, a namespace declaration, one
\* at the length limit, one whose encoding is not detected, one with a byte
\* after the first lines that does not decode
Plain == Text(TRUE, TRUE, 12, 12, FALSE)
Declaration == Text(TRUE, TRUE, 70, 70, TRUE)
Texts ==
    { Plain,
      Declaration,
      Text(TRUE, TRUE, NsLimit, NsLimit, TRUE),
      Text(FALSE, FALSE, 70, 0, TRUE),
      Text(TRUE, FALSE, 70, 0, TRUE) }

Absent == Text(FALSE, FALSE, 0, 0, FALSE)

\* the metadata directory of the archive, a-1.dist-info
DISTINFO == <<"a", "-", "1", DOT, "dist-info", SLASH>>

\* .py files that may be in the archive: b/c.py, a/_/c/b.py, at the top
\* a-b.py, in the metadata directory a-1.dist-info/c.py, at the top
\* __init__.py and a.py
Modules ==
    << File(<<"b", SLASH, "c", ".py">>, Plain),
       File(<<"a", SLASH, "_", SLASH, "c", SLASH, "b", ".py">>, Plain),
       File(<<"a", "-", "b", ".py">>, Plain),
       File(DISTINFO \o <<"c", ".py">>, Plain),
       File(INIT, Plain),
       File(<<"a", ".py">>, Plain) >>

\* the archive with the initializers of inits (a text or Absent for each of
\* InitDirs) and the modules of Modules whose position is in mods
Files(inits, mods) ==
    LET present == SelectSeq([i \in 1..Len(InitDirs) |-> i], LAMBDA i : inits[i] # Absent)
        chosen == SelectSeq([i \in 1..Len(Modules) |-> i], LAMBDA i : i \in mods)
    IN [k \in 1..Len(present) |-> File(InitDirs[present[k]] \o INIT, inits[present[k]])]
       \o [k \in 1..Len(chosen) |-> Modules[chosen[k]]]

InitInspect ==
    /\ MinimizerAtRest
    /\ IndexAtRest
    /\ pypi = None
    /\ workers = None
    /\ ProjectAtRest
    /\ call \in { Applying("from_wheel", Files(inits, mods)) :
                    inits \in [1..Len(InitDirs) -> Texts \cup {Absent}],
                    mods \in SUBSET (1..Len(Modules)) }

\* the roots= item of from_wheel: find_roots(*find_names(self.wheel))
InspectFiles ==
    /\ call.op = "from_wheel"
    /\ ~call.done
    /\ LET names == find_names(Wheel(<<"P1">>, call.arg))
       IN call' = [call EXCEPT
                    !.done = TRUE,
                    !.out = IF find_packages(call.arg).exc # "none"
                            THEN find_packages(call.arg)
                            ELSE Return([names |-> names, roots |-> find_roots(names)])]
    /\ UNCHANGED <<pypi, workers, fs, frame>>
    /\ UNCHANGED rvars
    /\ UNCHANGED ivars

NextInspect == InspectFiles

SpecInspect == InitInspect /\ [][NextInspect]_vars

(***************************************************************************)
(* Specification of is_namespace: it is called once on an initializer      *)
(* whose size and text length lie within MaxOff of the limit.              *)
(***************************************************************************)
MaxOff == 3

\* sizes and lengths around the limit
NearLimit == (NsLimit - MaxOff)..(NsLimit + MaxOff)

\* the contents of an initializer: one that decodes has at most one
\* character per byte; the others are never read to the end
InitTexts ==
    { Text(TRUE, TRUE, sl[1], sl[2], d) :
        sl \in {p \in NearLimit \X NearLimit : p[2] <= p[1]}, d \in BOOLEAN }
    \cup { Text(p, FALSE, size, 0, d) : p \in BOOLEAN, size \in NearLimit, d \in BOOLEAN }

InitNamespace ==
    /\ MinimizerAtRest
    /\ IndexAtRest
    /\ pypi = None
    /\ workers = None
    /\ ProjectAtRest
    /\ call \in {Applying("is_namespace", File(InitDirs[1] \o INIT, t)) : t \in InitTexts}

\* the value is kept in a list, as the values of the resolver calls are
IsNamespace ==
    /\ call.op = "is_namespace"
    /\ ~call.done
    /\ LET r == is_namespace(call.arg)
       IN call' = [call EXCEPT !.done = TRUE,
                               !.out = IF r.exc = "none" THEN Return(<<r.value>>)
                                       ELSE Raise(r.exc, r.msg)]
    /\ UNCHANGED <<pypi, workers, fs, frame>>
    /\ UNCHANGED rvars
    /\ UNCHANGED ivars

NextNamespace == IsNamespace

SpecNamespace == InitNamespace /\ [][NextNamespace]_vars

(***************************************************************************)
(* Specification of the bootstrap: a with-statement on assured(target,     *)
(* content_factory) in a project directory, around a body that may write   *)
(* or remove files and may raise.                                          *)
(***************************************************************************)
TARGET == "pyproject.toml"

DIST == "dist"

SYSTEM == "system.toml"

Contents == {SYSTEM, "custom", "built"}

Paths == {TARGET, DIST}

\* pathlib.Path.exists
exists(files, path) == path \in DOMAIN files

\* pathlib.Path.write_text
write_text(files, path, text) ==
    [q \in DOMAIN files \cup {path} |-> IF q = path THEN text ELSE files[q]]

\* pathlib.Path.unlink, the path existing
unlink(files, path) == [q \in DOMAIN files \ {path} |-> files[q]]

\* the with-statement: where the generator is suspended, the directory the
\* statement was entered in, the content factory's outcome, the exception
\* leaving the statement
With(at, entry, factory, exc) ==
    [pc |-> at, entry |-> entry, factory |-> factory, exc |-> exc]

\* assured up to its yield: the files, the yield reached, the exception
assured_enter(files, target, content_factory) ==
    IF exists(files, target)
    THEN [files |-> files, pc |-> "yield_existing", exc |-> "none"]
    ELSE IF content_factory.exc # "none"
         THEN [files |-> files, pc |-> "done", exc |-> content_factory.exc]
         ELSE [files |-> write_text(files, target, content_factory.value),
               pc |-> "yield_created", exc |-> "none"]

\* a variant whose cleanup is not in a finally clause
assured_exit_without_finally(files, target, at, exc) ==
    IF at = "yield_existing" \/ exc # "none"
    THEN [files |-> files, exc |-> exc]
    ELSE IF exists(files, target)
         THEN [files |-> unlink(files, target), exc |-> exc]
         ELSE [files |-> files, exc |-> "FileNotFoundError"]

\* assured resumed at its yield, the body having ended with exc
assured_exit(files, target, at, exc) ==
    IF at = "yield_existing"
    THEN [files |-> files, exc |-> exc]
    ELSE IF exists(files, target)
         THEN [files |-> unlink(files, target), exc |-> exc]
         ELSE [files |-> files, exc |-> "FileNotFoundError"]

Directories == UNION {[d -> Contents] : d \in SUBSET Paths}

Factories == {Return(SYSTEM), Raise("FileNotFoundError", SYSTEM)}

InitAssured ==
    /\ MinimizerAtRest
    /\ IndexAtRest
    /\ pypi = None
    /\ workers = None
    /\ call = NoApply
    /\ fs \in Directories
    /\ \E factory \in Factories : frame = With("call", fs, factory, "none")

\* the with-statement is entered
Enter ==
    /\ frame.pc = "call"
    /\ LET r == assured_enter(fs, TARGET, frame.factory)
       IN /\ fs' = r.files
          /\ frame' = [frame EXCEPT !.pc = r.pc, !.exc = r.exc]
    /\ UNCHANGED <<pypi, workers, call>>
    /\ UNCHANGED rvars
    /\ UNCHANGED ivars

Yields == {"yield_existing", "yield_created"}

\* the body writes a file
BodyWrite ==
    /\ frame.pc \in Yields
    /\ \E path \in Paths, text \in Contents :
          /\ ~(exists(fs, path) /\ fs[path] = text)
          /\ fs' = write_text(fs, path, text)
    /\ UNCHANGED <<pypi, workers, call, frame>>
    /\ UNCHANGED rvars
    /\ UNCHANGED ivars

\* the body removes a file
BodyUnlink ==
    /\ frame.pc \in Yields
    /\ \E path \in DOMAIN fs : fs' = unlink(fs, path)
    /\ UNCHANGED <<pypi, workers, call, frame>>
    /\ UNCHANGED rvars
    /\ UNCHANGED ivars

\* the body ends, by reaching its end or by raising, and control leaves the
\* with-statement
Leave ==
    /\ frame.pc \in Yields
    /\ \E exc \in {"none", "SystemExit"} :
          LET r == assured_exit(fs, TARGET, frame.pc, exc)
          IN /\ fs' = r.files
             /\ frame' = [frame EXCEPT !.pc = "done", !.exc = r.exc]
    /\ UNCHANGED <<pypi, workers, call>>
    /\ UNCHANGED rvars
    /\ UNCHANGED ivars

NextAssured == Enter \/ BodyWrite \/ BodyUnlink \/ Leave

SpecAssured == InitAssured /\ [][NextAssured]_vars

(***************************************************************************)
(* Specification of the build hooks: prepare_metadata and build_wheel      *)
(* called by a front end, in any order and any number of times, on a       *)
(* project whose version control moves between the calls.                  *)
(***************************************************************************)
Versions == {"1.0", "1.1"}

CWD == <<DOT>>

NoDir == <<>>

\* a metadata file: its header lines and the text after them
Rendered(headers, payload) == [headers |-> headers, payload |-> payload]

EmptyText == Rendered(None, "")

\* the fields found by discovery in the project as it is now
discover(project) ==
    [k \in {"Name", "Version", "Description"} |->
        IF k = "Name" THEN "pkg"
        ELSE IF k = "Version" THEN project.version ELSE project.readme]

\* Metadata.id, as the parts of the string
metadata_id(metadata) == <<metadata["Name"], metadata["Version"]>>

\* Metadata.render: the description leaves the headers for the payload
render(metadata) ==
    IF "Description" \in DOMAIN metadata
    THEN Rendered([k \in DOMAIN metadata \ {"Description"} |-> metadata[k]],
                  metadata["Description"])
    ELSE Rendered(metadata, "")

\* PathDistribution(info).metadata: the file parsed, a payload becoming the
\* Description header, a missing file giving no header
message(files, info) ==
    LET text == IF info \in DOMAIN files THEN files[info] ELSE EmptyText
    IN IF text.payload # ""
       THEN Update(text.headers, [k \in {"Description"} |-> text.payload])
       ELSE text.headers

\* Metadata.load
load(files, info) ==
    LET md == message(files, info) IN IF bool(md) THEN md ELSE None

dist_info(metadata) == metadata_id(metadata) \o <<"dist-info">>

\* prepare_metadata: the directory written, its name or the exception
prepare_metadata(files, project) ==
    LET loaded == load(files, CWD)
        metadata == IF bool(loaded) THEN loaded ELSE discover(project)
        md_root == dist_info(metadata)
    IN IF md_root \in DOMAIN files
       THEN [files |-> files, out |-> Raise("FileExistsError", "")]
       ELSE [files |-> write_text(files, md_root, render(metadata)),
             out |-> Return(md_root)]

\* a variant that asks discovery before the prepared metadata
build_wheel_discovering(files, project, metadata_directory) ==
    LET metadata == discover(project)
    IN [calls |-> <<"discover">>,
        wheel |-> [filename |-> metadata_id(metadata) \o <<"whl">>,
                   METADATA |-> render(metadata)]]

\* build_wheel: the calls made on Metadata, and the wheel written
build_wheel(files, project, metadata_directory) ==
    LET prepared == IF metadata_directory = NoDir THEN None
                    ELSE load(files, metadata_directory)
        local == load(files, CWD)
        metadata == IF bool(prepared) THEN prepared
                    ELSE IF bool(local) THEN local ELSE discover(project)
        calls == (IF metadata_directory = NoDir THEN <<>> ELSE <<"load(dir)">>)
                 \o (IF bool(prepared) THEN <<>>
                     ELSE <<"load()">>
                          \o (IF bool(local) THEN <<>> ELSE <<"discover">>))
    IN [calls |-> calls,
        wheel |-> [filename |-> metadata_id(metadata) \o <<"whl">>,
                   METADATA |-> render(metadata)]]

\* the front end: the project, the latest hook, the directories
\* prepare_metadata returned, the latest build_wheel's argument and outcome
Hooks(project, hook, prepared, arg, built) ==
    [pc |-> hook, project |-> project, prepared |-> prepared, arg |-> arg,
     built |-> built]

NotBuilt == [calls |-> <<>>, wheel |-> [filename |-> <<>>, METADATA |-> EmptyText]]

Readmes == {"", "readme"}

\* what the current directory holds as PKG-INFO: nothing, an empty file, a
\* file this backend rendered, a file with the description as a header
LocalTexts ==
    { EmptyText,
      Rendered([k \in {"Name", "Version"} |-> IF k = "Name" THEN "pkg" ELSE "0.9"],
               "readme"),
      Rendered([k \in {"Name", "Version", "Description"} |->
                   IF k = "Name" THEN "pkg"
                   ELSE IF k = "Version" THEN "0.9" ELSE "readme"], "") }

InitHooks ==
    /\ MinimizerAtRest
    /\ IndexAtRest
    /\ pypi = None
    /\ workers = None
    /\ call = NoApply
    /\ \/ fs = None
       \/ \E text \in LocalTexts : fs = [q \in {CWD} |-> text]
    /\ \E v \in Versions, r \in Readmes :
          frame = Hooks([version |-> v, readme |-> r], "start", {}, NoDir, NotBuilt)

\* a commit or a tag changes what discovery finds
Tag ==
    /\ frame.pc # "none"
    /\ \E v \in Versions, r \in Readmes :
          /\ [version |-> v, readme |-> r] # frame.project
          /\ frame' = [frame EXCEPT !.project = [version |-> v, readme |-> r]]
    /\ UNCHANGED <<pypi, workers, call, fs>>
    /\ UNCHANGED rvars
    /\ UNCHANGED ivars

PrepareMetadata ==
    /\ frame.pc # "none"
    /\ LET r == prepare_metadata(fs, frame.project)
       IN /\ fs' = r.files
          /\ frame' = [frame EXCEPT
                          !.pc = "prepare_metadata",
                          !.prepared = IF r.out.exc = "none"
                                       THEN @ \cup {r.out.value} ELSE @]
    /\ UNCHANGED <<pypi, workers, call>>
    /\ UNCHANGED rvars
    /\ UNCHANGED ivars

\* a directory no hook has written
Elsewhere == <<"tmp">>

BuildWheel ==
    /\ frame.pc # "none"
    /\ \E metadata_directory \in {NoDir, Elsewhere} \cup frame.prepared :
          frame' = [frame EXCEPT
                       !.pc = "build_wheel",
                       !.arg = metadata_directory,
                       !.built = build_wheel(fs, frame.project, metadata_directory)]
    /\ UNCHANGED <<pypi, workers, call, fs>>
    /\ UNCHANGED rvars
    /\ UNCHANGED ivars

NextHooks == Tag \/ PrepareMetadata \/ BuildWheel

SpecHooks == InitHooks /\ [][NextHooks]_vars

(***************************************************************************)
(* Properties of the resolver                                              *)
(***************************************************************************)
\* the name and its dotted ancestors by segments, most specific first
Ancestry(n) ==
    LET g == split(n) IN [k \in 1..Len(g) |-> join(SubSeq(g, 1, Len(g) - k + 1))]

\* some record lists c in its roots
IsIndexed(coll, c) ==
    \E i \in 1..Len(coll) : "roots" \in DOMAIN coll[i] /\ InTuple(c, coll[i].roots)

IndexedCandidates(coll, n) ==
    {k \in 1..Len(Ancestry(n)) : IsIndexed(coll, Ancestry(n)[k])}

\* the step is a call of `op` (the store is the one the call reads)
Calls(op) == ret.op = "none" /\ ret'.op = op

\* C1: distribution_for returns the 'name' of a record that lists, in its
\* roots, the most specific of the candidates (the name, then its ancestors)
\* that any record lists: with a.b.c and a.b both indexed the owner of a.b.c,
\* with only a.b indexed the owner of a.b.
C1_MostSpecificWins ==
    [][ (Calls("distribution_for") /\ IndexedCandidates(store, ret'.name) # {}) =>
            LET c == Ancestry(ret'.name)[Min(IndexedCandidates(store, ret'.name))]
            IN /\ ret'.exc = "none"
               /\ \E i \in 1..Len(store) :
                    /\ "roots" \in DOMAIN store[i]
                    /\ InTuple(c, store[i].roots)
                    /\ ret'.value = <<store[i].name>>
      ]_vars

\* a.b is listed by the first record, a.b.c by the second: the second owns it
C1_Witness ==
    /\ ret.op = "distribution_for"
    /\ ret.name = A_B_C
    /\ Len(store) = 2
    /\ "roots" \in DOMAIN store[1] /\ store[1].roots = <<A_B>>
    /\ "roots" \in DOMAIN store[2] /\ store[2].roots = <<A_B_C>>
    /\ ret.exc = "none"
    /\ ret.value = <<store[2].name>>

\* C2: for a name none of whose candidates is indexed, distribution_for
\* returns a value (Unresolved) and raises nothing.
C2_UnresolvedIsReturned ==
    [][ (Calls("distribution_for") /\ IndexedCandidates(store, ret'.name) = {}) =>
            ret'.exc = "none"
      ]_vars

\* C3: in a batch, every import with an indexed candidate yields its
\* distribution, whatever happens to the other imports of the batch.
C3_BatchNotAborted ==
    [][ Calls("inferred_deps") =>
            \A k \in 1..Len(ret'.imps) :
                IndexedCandidates(store, ret'.imps[k].name) # {} =>
                    \E j \in 1..Len(ret'.value) :
                        ret'.value[j] =
                            <<distribution_for(store, ret'.imps[k].name).value,
                              extra_for(ret'.imps[k].module)>>
      ]_vars

(***************************************************************************)
(* Properties of the crawl and the store                                   *)
(***************************************************************************)
Has(doc, key) == key \in DOMAIN doc

\* the crawl holds a refreshed distribution that owns a candidate of n and
\* has not saved it yet, and no record lists a candidate of n
OwnerNotYetUpserted(n) ==
    /\ pc = "refreshed"
    /\ Has(dist.vars, "roots")
    /\ \E k \in 1..Len(Ancestry(n)) : InTuple(Ancestry(n)[k], dist.vars.roots)
    /\ IndexedCandidates(store, n) = {}

\* C19: a resolver call, at any point of a crawl, leaves every record as it
\* is, and a call made before the owning record is upserted yields the
\* not-found outcome, not an error.
C19_ReadOnlyAndMissIsNotFound ==
    [][ Calls("distribution_for") =>
            /\ store' = store
            /\ OwnerNotYetUpserted(ret'.name) => ret'.exc = "none"
      ]_vars

\* C28: a value returned by distribution_for is the name of a record whose
\* roots hold the queried name or one of its dotted ancestors; every record
\* with roots has a name, and no lookup fails for a missing name.
C28_ReturnedNameOwnsACandidate ==
    /\ [](\A i \in 1..Len(store) : Has(store[i], "roots") => Has(store[i], "name"))
    /\ [][ Calls("distribution_for") =>
              /\ ret'.exc # "KeyError"
              /\ ret'.exc = "none" =>
                    \E i \in 1..Len(store), k \in 1..Len(Ancestry(ret'.name)) :
                        /\ Has(store[i], "roots")
                        /\ InTuple(Ancestry(ret'.name)[k], store[i].roots)
                        /\ ret'.value = <<store[i].name>>
         ]_vars

\* a.b.c is resolved through its ancestor a.b, by a record whose latest
\* attempt failed and left the roots of an earlier one
C28_Witness ==
    /\ ret.op = "distribution_for"
    /\ ret.exc = "none"
    /\ ret.name = A_B_C
    /\ \E i \in 1..Len(store) :
          /\ Has(store[i], "roots") /\ Has(store[i], "error")
          /\ store[i].roots = <<A_B>>
          /\ ret.value = <<store[i].name>>
    /\ \A i \in 1..Len(store) : Has(store[i], "roots") => ~InTuple(A_B_C, store[i].roots)

\* the fields an attempt produces
AttemptKeys == {"name", "roots", "error", "updated"}

\* C30: processing a distribution (refresh, then save) changes nothing
\* before the save, and the save changes, of the record with the
\* distribution's id, only name, roots, error and updated: a stored
\* downloads stays, every record with another id stays as it is, and no
\* record is added when one has the id.
C30_OnlyAttemptFieldsChange ==
    /\ [][pc = "running" /\ pc' \in {"refreshed", "aborted"} => store' = store]_vars
    /\ [][pc = "refreshed" /\ pc' = "running" =>
             /\ Len(store') >= Len(store)
             /\ Matching(store, dist.id) # {} => Len(store') = Len(store)
             /\ \A i \in 1..Len(store) :
                   /\ store'[i].id = store[i].id
                   /\ store[i].id # dist.id => store'[i] = store[i]
                   /\ \A key \in DOMAIN store[i] \ AttemptKeys :
                         Has(store'[i], key) /\ store'[i][key] = store[i][key]
                   /\ \A key \in DOMAIN store'[i] \ DOMAIN store[i] :
                         key \in AttemptKeys
         ]_vars

\* the first record was processed and kept its downloads next to the new
\* fields; the second record, of another id, is as the feed left it
C30_Witness ==
    /\ pc = "running"
    /\ Len(store) = 2
    /\ store[1].id \in attempted
    /\ Has(store[1], "downloads") /\ Has(store[1], "roots") /\ Has(store[1], "updated")
    /\ store[2].id \notin attempted
    /\ DOMAIN store[2] = {"id", "downloads"}

\* C4: no failure of a fetch or an inspection leaves the crawl loop: each
\* ends in a record with error and updated, and the loop goes on.
C4_FailureNeverAbortsCrawl ==
    pc # "aborted" /\ raised = "none"

\* C5: every processed record has exactly one of roots and error.
C5_ExactlyOneOfRootsAndError ==
    \A i \in 1..Len(store) :
        Has(store[i], "updated") => (Has(store[i], "roots") # Has(store[i], "error"))

\* C9: after any sequence of saves the store holds at most one record per
\* id: a save for an id that has a record overwrites it, adding none.
C9_OneRecordPerId ==
    \A id \in Ids : Cardinality(Matching(store, id)) <= 1

\* one record after a feed row and two crawl attempts of the same id
C9_Witness ==
    /\ Len(store) = 1
    /\ Has(store[1], "downloads")
    /\ Has(store[1], "roots")
    /\ Has(store[1], "error")
    /\ store[1].updated = 2

\* C10: a distribution whose refresh and save completed has `updated` on its
\* record, and unprocessed() is exactly the ids of the records without
\* `updated`, so it does not return that distribution.
C10_AttemptedNeverUnprocessed ==
    /\ \A id \in attempted :
        /\ Matching(store, id) # {}
        /\ \A i \in Matching(store, id) : Has(store[i], "updated")
        /\ ~InTuple(id, unprocessed(store))
    /\ \A id \in Ids :
        InTuple(id, unprocessed(store)) <=>
            \E i \in Matching(store, id) : ~Has(store[i], "updated")

\* a failed attempt is recorded with `updated` while another record waits
C10_Witness ==
    /\ \E i \in 1..Len(store) :
        /\ store[i].id \in attempted
        /\ Has(store[i], "error")
        /\ Has(store[i], "updated")
    /\ unprocessed(store) # <<>>

(***************************************************************************)
(* Properties of the crawl of a feed                                       *)
(***************************************************************************)
\* the per-project request is answered 404
Is404(answer) == answer.get = "response" /\ answer.status = 404

\* the per-project request and the download succeed and the first wheel
\* listed is an archive with one metadata directory
IsGood(answer) ==
    /\ answer.get = "response"
    /\ answer.status = 200
    /\ "urls" \in DOMAIN answer.info
    /\ \E i \in 1..Len(answer.info.urls) :
        /\ endswith_whl(answer.info.urls[i].filename)
        /\ \A j \in 1..(i - 1) : ~endswith_whl(answer.info.urls[j].filename)
        /\ answer.info.urls[i].asset.iszip
        /\ Len(answer.info.urls[i].asset.archive.distinfos) = 1

\* the record of id (there is one)
Record(id) == store[Min(Matching(store, id))]

\* every record of the feed has been recorded and processed
FeedDone ==
    /\ pc = "idle"
    /\ Len(store) = Len(Feed)
    /\ unprocessed(store) = <<>>

\* C11: when every fetch of the feed either fails with a 404 or succeeds, the
\* crawl is never left by an exception, and once it has run to completion
\* there is exactly one record per feed name: with error (and no roots) where
\* the fetch failed, with roots (and no error) elsewhere.
C11_FeedWith404s ==
    (\A id \in FeedIds : Is404(pypi[id]) \/ IsGood(pypi[id])) =>
        /\ pc # "aborted"
        /\ FeedDone =>
            /\ \A id \in FeedIds : Cardinality(Matching(store, id)) = 1
            /\ \A id \in FeedIds :
                IF Is404(pypi[id])
                THEN Has(Record(id), "error") /\ ~Has(Record(id), "roots")
                ELSE Has(Record(id), "roots") /\ ~Has(Record(id), "error")

\* the loop of process.run takes a distribution and calls refresh on it
Attempts == pc = "running" /\ pc' \in {"refreshed", "aborted"}

\* the attempt ends in a Distribution with error and updated in its vars
EndsInError ==
    /\ pc' = "refreshed"
    /\ Has(dist'.vars, "error")
    /\ Has(dist'.vars, "updated")

\* the first asset of the answer whose filename ends in '.whl'
FirstWheel(answer) ==
    LET urls == answer.info.urls
    IN urls[Min({i \in 1..Len(urls) : endswith_whl(urls[i].filename)})]

\* the per-project request succeeds and lists a wheel
ListsWheel(answer) ==
    /\ answer.get = "response"
    /\ answer.status = 200
    /\ "urls" \in DOMAIN answer.info
    /\ \E i \in 1..Len(answer.info.urls) : endswith_whl(answer.info.urls[i].filename)

\* three records, the second with the error of its 404, the others with roots
C11_Witness ==
    /\ FeedDone
    /\ Is404(pypi["p2"]) /\ IsGood(pypi["p1"]) /\ IsGood(pypi["p3"])
    /\ Len(store) = 3
    /\ Has(Record("p2"), "error")
    /\ Has(Record("p1"), "roots")
    /\ Has(Record("p3"), "roots")

\* C12: a request that still fails when the retries are used up ends the
\* attempt with error and updated on the distribution, not with an exception
\* leaving the crawl.
C12_ExhaustedRetriesAreRecorded ==
    [][ (Attempts /\ pypi[Head(queue)].get # "response") => EndsInError ]_vars

\* a 4xx answer to the per-project request or to the download of the wheel
Is4xx(answer) ==
    \/ answer.get = "response" /\ answer.status \in 400..499
    \/ ListsWheel(answer) /\ FirstWheel(answer).asset.status \in 400..499

\* C13: a 4xx answer to the per-project request or to the asset download
\* ends the attempt with the fetch error in the distribution's error field.
C13_ClientErrorIsRecorded ==
    [][ (Attempts /\ Is4xx(pypi[Head(queue)])) => EndsInError ]_vars

\* the wheel is fetched and holds no or several metadata directories
BadMetadata(answer) ==
    /\ ListsWheel(answer)
    /\ FirstWheel(answer).asset.iszip
    /\ Len(FirstWheel(answer).asset.archive.distinfos) # 1

\* C15: when the fetched archive holds zero or more than one '*.dist-info'
\* directory, from_wheel raises nothing: the attempt ends with error and
\* updated and without roots, and so does the record that save writes.
C15_MetadataCountIsRecorded ==
    [][ /\ (Attempts /\ BadMetadata(pypi[Head(queue)])) =>
                (EndsInError /\ ~Has(dist'.vars, "roots"))
        /\ (pc = "refreshed" /\ pc' = "running" /\ BadMetadata(pypi[dist.id])) =>
                LET doc == store'[Min(Matching(store', dist.id))]
                IN /\ Has(doc, "error")
                   /\ Has(doc, "updated")
                   /\ ~Has(doc, "roots")
      ]_vars

\* one record of an archive without metadata directory and one of an archive
\* with two, each with the error of one()
C15_Witness ==
    /\ Len(store) >= 2
    /\ BadMetadata(pypi["p1"]) /\ BadMetadata(pypi["p2"])
    /\ Len(FirstWheel(pypi["p1"]).asset.archive.distinfos) = 0
    /\ Len(FirstWheel(pypi["p2"]).asset.archive.distinfos) = 2
    /\ Has(store[1], "updated") /\ Has(store[2], "updated")
    /\ Has(store[1], "error") /\ Has(store[2], "error")
    /\ store[1].error = "too few items in iterable (expected 1)"
    /\ store[2].error = "Expected exactly one item in iterable"

(***************************************************************************)
(* Properties of the pool                                                  *)
(***************************************************************************)
\* the records of the feed before any is processed
Observed == [i \in 1..Len(Feed) |-> json(from_row(Row(Feed[i])))]

\* the body of the loop for one distribution, run alone: an exception of
\* refresh leaves the record as it was
Pipeline(coll, id, now) ==
    LET r == refresh(Distribution(id), pypi[id], now)
    IN IF r.exc = "none" THEN save(coll, r.value) ELSE coll

\* the pipelines of the ids of order, one after the other
RECURSIVE Sequential(_, _)
Sequential(coll, order) ==
    IF order = <<>> THEN coll
    ELSE Sequential(Pipeline(coll, Head(order), 0), Tail(order))

\* the content of the store with the timestamps blanked
Untimed(coll) ==
    [i \in 1..Len(coll) |->
        IF Has(coll[i], "updated") THEN Update(coll[i], [updated |-> 0]) ELSE coll[i]]

\* the orders in which the ids of the feed can be taken
Orders == {o \in [1..Len(Feed) -> FeedIds] : \A i, j \in 1..Len(Feed) : o[i] = o[j] => i = j}

PoolDone ==
    /\ Len(store) = Len(Feed)
    /\ \A id \in FeedIds : workers[id].stage \in {"saved", "failed"}

RECURSIVE CrawlOver(_, _)
CrawlOver(coll, todo) ==
    IF todo = <<>> THEN coll
    ELSE LET r == refresh(Distribution(Head(todo)), pypi[Head(todo)], 0)
         IN IF r.exc # "none" THEN coll
            ELSE CrawlOver(save(coll, r.value), Tail(todo))

UninterruptedRun == CrawlOver(Observed, unprocessed(Observed))

\* the ids of the records no save of the crawl has reached, in store order
NotReached ==
    SelectSeq([i \in 1..Len(store) |-> store[i].id], LAMBDA id : id \notin attempted)

\* every row is recorded and no run is under way or left to do
Settled ==
    /\ Len(store) = Len(Feed)
    /\ \/ pc = "idle" /\ unprocessed(store) = <<>>
       \/ pc = "aborted"

\* C18: whenever the crawl is interrupted between two distributions, every
\* record it has upserted has updated and its outcome, every other record
\* is still unprocessed, the next run takes exactly the records not yet
\* reached, and the content in the end is, timestamps aside, that of one
\* uninterrupted run.
C18_InterruptedCrawlResumes ==
    /\ [](\A i \in 1..Len(store) :
            IF store[i].id \in attempted
            THEN Has(store[i], "updated") /\ (Has(store[i], "roots") \/ Has(store[i], "error"))
            ELSE ~Has(store[i], "updated") /\ ~Has(store[i], "roots") /\ ~Has(store[i], "error"))
    /\ [](Settled => Untimed(store) = Untimed(UninterruptedRun))
    /\ [][ /\ (pc = "idle" /\ pc' = "running") => queue' = NotReached
           /\ Attempts => Head(queue) \notin attempted
         ]_vars

\* the loop is stopped after the first of three records: that record is
\* complete and the two others wait for the next run
C18_Witness ==
    /\ pc = "idle"
    /\ Len(store) = 3
    /\ attempted = {"p1"}
    /\ Has(store[1], "updated") /\ Has(store[1], "roots")
    /\ unprocessed(store) = <<"p2", "p3">>

(***************************************************************************)
(* Properties of Distribution.wheel                                        *)
(***************************************************************************)
\* the outcome of opening the body of a download as a zip archive
Opened(asset) ==
    IF asset.iszip THEN Return(asset.archive)
    ELSE Raise("BadZipFile", "File is not a zip file")

\* C14: on a per-project response, wheel raises "No dists" when there is no
\* asset list, "No wheels" when no filename of the list ends in '.whl', and
\* otherwise downloads and opens the first asset of the list whose filename
\* ends in '.whl', and no other.
C14_FirstWheelInListOrder ==
    (call.op = "wheel" /\ call.done /\ call.arg.get = "response" /\ call.arg.status = 200) =>
        IF ~Has(call.arg.info, "urls")
        THEN call.out.exc = "ValueError" /\ call.out.msg = "No dists"
        ELSE LET urls == call.arg.info.urls
             IN IF \A i \in 1..Len(urls) : ~endswith_whl(urls[i].filename)
                THEN call.out.exc = "ValueError" /\ call.out.msg = "No wheels"
                ELSE \E i \in 1..Len(urls) :
                        /\ endswith_whl(urls[i].filename)
                        /\ \A j \in 1..(i - 1) : ~endswith_whl(urls[j].filename)
                        /\ call.out = Opened(urls[i].asset)

\* a source archive, then two wheels with different content: the first
\* wheel is the one returned
C14_Witness ==
    /\ call.op = "wheel" /\ call.done
    /\ Has(call.arg.info, "urls")
    /\ Len(call.arg.info.urls) = 3
    /\ call.arg.info.urls[1].filename = SDIST
    /\ call.arg.info.urls[2].filename = WHL
    /\ call.arg.info.urls[3].filename = WHL
    /\ call.arg.info.urls[2].asset.iszip
    /\ call.arg.info.urls[3].asset.iszip
    /\ call.arg.info.urls[2].asset # call.arg.info.urls[3].asset
    /\ call.out = Return(call.arg.info.urls[2].asset.archive)

(***************************************************************************)
(* Properties of load-distributions.py                                     *)
(***************************************************************************)
\* the entries of the include-filtered feed that remain after dropping the
\* first skip entries and then every entry before the first equal to jump
Remaining(include, feed, jump, skip) ==
    LET dists == islice(filter(include, feed), skip)
        hits == {i \in 1..Len(dists) : dists[i] = jump}
    IN IF jump = "" THEN dists
       ELSE IF hits = {} THEN <<>>
       ELSE SubSeq(dists, Min(hits), Len(dists))

\* C16: run processes, in feed order, exactly the remaining entries, for
\* every position of the marker, the first remaining entry included.
C16_ResumesAtMarker ==
    (call.op = "run" /\ call.done) =>
        /\ call.out.exc = "none"
        /\ call.out.value =
              Remaining(call.arg.include, Feed, call.arg.jump, call.arg.skip)

(***************************************************************************)
(* Properties of the inspection of an archive                              *)
(***************************************************************************)
IsInit(f) == LastSlash(f.at) > 0 /\ name_of(f.at) = INIT

IsModule(f) == f.at[Len(f.at)] = ".py" /\ name_of(f.at) # INIT

\* is_namespace returns True for the file
Classified(f) == is_namespace(f).exc = "none" /\ is_namespace(f).value

\* the archive of the example: packages a and a.b, and a namespace
\* declaration in a/_/c/__init__.py
Example ==
    << File(InitDirs[1] \o INIT, Plain),
       File(InitDirs[2] \o INIT, Plain),
       File(InitDirs[3] \o INIT, Declaration) >>

\* C20: the names handed to find_roots are the importable names of the
\* packages whose __init__.py is not a namespace declaration and of the
\* modules, each as often as such a file gives it, and no others: an
\* __init__.py classified as a namespace declaration contributes no name;
\* the roots are find_roots of these names, and for packages a, a.b and a
\* namespace initializer at a._.c they are exactly a.
C20_NamespacePackagesAreDropped ==
    (call.op = "from_wheel" /\ call.done /\ call.out.exc = "none") =>
        LET files == call.arg
            names == call.out.value.names
            from == SelectSeq(files, LAMBDA f :
                        \/ IsInit(f) /\ ~Classified(f) /\ importable(package_name(f))
                        \/ IsModule(f) /\ importable(module_name(f)))
            name_at == [i \in 1..Len(from) |->
                            IF IsInit(from[i]) THEN package_name(from[i])
                            ELSE module_name(from[i])] \o <<>>
        IN /\ Len(names) = Len(name_at)
           /\ \A i \in 1..Len(name_at) :
                Cardinality({k \in 1..Len(names) : names[k] = name_at[i]}) =
                    Cardinality({j \in 1..Len(name_at) : name_at[j] = name_at[i]})
           /\ call.out.value.roots = find_roots(names)
           /\ files = Example => call.out.value.roots = << <<"a">> >>

\* the archive of the example with, in addition, a namespace declaration
\* in b/__init__.py and the module b/c.py: b is dropped and b.c is a root
C20_Witness ==
    /\ call.op = "from_wheel" /\ call.done
    /\ call.arg = Example \o << File(InitDirs[4] \o INIT, Declaration), Modules[1] >>
    /\ call.out.value.roots = << <<"a">>, <<"b", DOT, "c">> >>

\* the files of the archive that lie in its metadata directory
InMetadata(f) == Len(f.at) > Len(DISTINFO) /\ SubSeq(f.at, 1, Len(DISTINFO)) = DISTINFO

\* C21: every name of the roots computed for an archive is made of
\* dot-separated identifiers; the name of a file in the metadata directory,
\* the empty name of a top-level __init__.py and a name with a segment that
\* is no identifier are never among the roots.
C21_RootsAreImportable ==
    (call.op = "from_wheel" /\ call.done /\ call.out.exc = "none") =>
        LET files == call.arg
            roots == call.out.value.roots
        IN /\ \A k \in 1..Len(roots) :
                \A i \in 1..Len(split(roots[k])) : isidentifier(split(roots[k])[i])
           /\ ~InTuple(EMPTY, roots)
           /\ ~importable(package_name(File(INIT, Plain)))
           /\ \A i \in 1..Len(files) :
                InMetadata(files[i]) => ~InTuple(module_name(files[i]), roots)
           /\ \A i \in 1..Len(files) :
                (\E j \in 1..Len(split(module_name(files[i]))) :
                    ~isidentifier(split(module_name(files[i]))[j])) =>
                        ~InTuple(module_name(files[i]), roots)

\* package a with a-b.py, a-1.dist-info/c.py and a top-level __init__.py:
\* the only root is a
C21_Witness ==
    /\ call.op = "from_wheel" /\ call.done
    /\ call.arg = << File(InitDirs[1] \o INIT, Plain), Modules[3], Modules[4], Modules[5] >>
    /\ call.out.value.roots = << <<"a">> >>

(***************************************************************************)
(* Properties of is_namespace                                              *)
(***************************************************************************)
Classifies == call.op = "is_namespace" /\ call.done

\* C22: is_namespace never raises; for an initializer that does not decode
\* under its detected encoding, or whose encoding cannot be detected, it
\* returns False.
C22_NeverRaises ==
    Classifies =>
        /\ call.out.exc = "none"
        /\ (~call.arg.text.parses \/ ~call.arg.text.decodes) => call.out.value = <<FALSE>>

\* C23: a file of 1024 bytes or more is never classified as a namespace
\* declaration, whatever it holds.
C23_LargeFileIsNeverNamespace ==
    (Classifies /\ call.arg.text.size >= NsLimit) =>
        ~(call.out.exc = "none" /\ call.out.value = <<TRUE>>)

\* C24: is_namespace returns True for every readable file under 1024 bytes
\* in which a namespace declaration is found, and False for every file, of
\* any size, in which none is.
C24_DeclarationDecides ==
    Classifies =>
        /\ (/\ call.arg.text.parses /\ call.arg.text.decodes
            /\ call.arg.text.size < NsLimit
            /\ call.arg.text.declares) => call.out = Return(<<TRUE>>)
        /\ ~call.arg.text.declares => call.out = Return(<<FALSE>>)

(***************************************************************************)
(* Properties of the minimizer                                             *)
(***************************************************************************)
\* m is a strict dotted-prefix ancestor of n: n is m, a dot, and more
IsStrictAncestor(m, n) ==
    /\ Len(m) < Len(n)
    /\ SubSeq(n, 1, Len(m)) = m
    /\ n[Len(m) + 1] = DOT

\* the segment-level reading of "top(n) or parent(n) is in the input"
FirstSegment(n) == split(n)[1]
AllButLast(n) == LET g == split(n) IN join(SubSeq(g, 1, Len(g) - 1))
IsMultiSegment(n) == Len(split(n)) > 1
DroppedFrom(n, input) ==
    /\ IsMultiSegment(n)
    /\ InTuple(FirstSegment(n), input) \/ InTuple(AllButLast(n), input)

A == <<"a">>
B == <<"b">>

\* C6: the output of find_roots holds no two names of which one is a strict
\* dotted-prefix ancestor, at any depth, of the other.
C6_NoAncestorPairInRoots ==
    rphase # "input" =>
        \A i, j \in 1..Len(roots1) : ~IsStrictAncestor(roots1[i], roots1[j])

\* C7: find_roots is one filter pass in input order against the whole input:
\* a name is dropped exactly when its first segment (for a multi-segment name)
\* or its name without the last segment is in the input; the input
\* (a, a.b, b), which is (boto3, boto3.docs, spare) renamed, gives (a, b).
C7_SingleFilterPass ==
    rphase # "input" =>
        /\ roots1 = SelectSeq(pkgs, LAMBDA n : ~DroppedFrom(n, pkgs))
        /\ pkgs = <<A, A_B, B>> => roots1 = <<A, B>>

C7_Witness ==
    /\ rphase = "once"
    /\ pkgs = <<A, A_B, B>>
    /\ roots1 = <<A, B>>

\* C25: every name without a dot that is in the input of find_roots is in
\* its output.
C25_SingleSegmentNamesAreRetained ==
    rphase # "input" =>
        \A i \in 1..Len(pkgs) : Dots(pkgs[i]) = {} => InTuple(pkgs[i], roots1)

\* b is kept next to its descendants, which are dropped
C25_Witness ==
    /\ rphase = "once"
    /\ Len(pkgs) = 3
    /\ pkgs[2] = B
    /\ roots1 = <<B>>

\* C8: find_roots applied to its own output returns that output unchanged.
C8_Idempotent ==
    rphase = "twice" => roots2 = roots1

C8_Witness ==
    /\ rphase = "twice"
    /\ Len(roots1) < Len(pkgs)
    /\ Len(roots1) > 1
    /\ roots2 = roots1

(***************************************************************************)
(* Properties of the bootstrap                                             *)
(***************************************************************************)
\* the target was there when the with-statement was entered
Existed == frame.pc # "none" /\ exists(frame.entry, TARGET)

\* C26: assured yields with the target existing, created from
\* content_factory() when it was missing and untouched when it was there;
\* when control leaves the with-statement, normally or by an exception of
\* the body, a target that existed on entry is left as the body left it and
\* a target that did not exist is gone, no other file being touched.
C26_AssuredRestores ==
    /\ [](frame.pc = "done" /\ ~Existed => ~exists(fs, TARGET))
    /\ [][frame.pc = "call" /\ frame'.pc \in Yields =>
            /\ exists(fs', TARGET)
            /\ fs' = IF Existed THEN fs
                     ELSE write_text(fs, TARGET, frame.factory.value)]_vars
    /\ [][frame.pc \in Yields /\ frame'.pc = "done" =>
            /\ Existed => fs' = fs
            /\ ~Existed => /\ ~exists(fs', TARGET)
                           /\ \A q \in Paths \ {TARGET} :
                                 /\ exists(fs', q) <=> exists(fs, q)
                                 /\ exists(fs, q) => fs'[q] = fs[q]]_vars

\* the body raised after the target had been created, and the target is gone
C26_Witness ==
    /\ frame.pc = "done"
    /\ ~Existed
    /\ frame.factory.exc = "none"
    /\ frame.exc = "SystemExit"
    /\ ~exists(fs, TARGET)
    /\ exists(fs, DIST)

(***************************************************************************)
(* Properties of the build hooks                                           *)
(***************************************************************************)
\* the path holds no metadata file, or one without a header and a payload
YieldsNothing(path) == path \notin DOMAIN fs \/ fs[path] = EmptyText

\* C27: build_wheel given a directory that prepare_metadata wrote does not
\* call Metadata.discover and writes that directory's METADATA into the
\* wheel, whatever the project has become since; discover is called only
\* when the metadata directory (if any) and the current directory both
\* hold no metadata.
C27_PreparedMetadataIsUsed ==
    frame.pc = "build_wheel" =>
        /\ frame.arg \in frame.prepared =>
              /\ frame.built.calls = <<"load(dir)">>
              /\ frame.built.wheel.METADATA = fs[frame.arg]
              /\ frame.built.wheel.filename = SubSeq(frame.arg, 1, 2) \o <<"whl">>
        /\ InTuple("discover", frame.built.calls) =>
              /\ frame.arg = NoDir \/ YieldsNothing(frame.arg)
              /\ YieldsNothing(CWD)

\* the project was tagged after its metadata had been prepared, and the
\* wheel carries the prepared version
C27_Witness ==
    /\ frame.pc = "build_wheel"
    /\ frame.arg \in frame.prepared
    /\ CWD \notin DOMAIN fs
    /\ frame.project.version # frame.arg[2]
    /\ frame.built.wheel.METADATA.headers["Version"] = frame.arg[2]

\* C29: the roots computed for an archive hold no name twice.
C29_RootsAreDistinct ==
    (call.op = "from_wheel" /\ call.done /\ call.out.exc = "none") =>
        LET roots == call.out.value.roots
        IN \A i, j \in 1..Len(roots) : roots[i] = roots[j] => i = j

====
